---- MODULE Spec2Model ----
(***************************************************************************)
(* Model of cpp-wasm/optimization_triangle.cpp: the Triangle geometry      *)
(* class, the global interaction state (triangle, dotPosition, isDragging) *)
(* and the exported handlers.                                              *)
(*                                                                         *)
(* Every `double` of the source is an IEEE-754 binary64 value.  It is      *)
(* modelled exactly: a finite double is sign * m * 2^e with m an odd       *)
(* natural number of at most 53 bits, and each arithmetic operator         *)
(* computes the exact result and rounds it to nearest, ties to even.       *)
(* TLC integers are 32 bits wide, so m is kept as a little-endian sequence *)
(* of 15-bit limbs.  All inputs are finite and of moderate size, so no     *)
(* operation overflows, underflows to a subnormal or produces a NaN; the   *)
(* exponent is therefore an unbounded integer.                             *)
(***************************************************************************)
EXTENDS Integers, Sequences, FiniteSets, TLC

----------------------------------------------------------------------------
(* Natural numbers of arbitrary size: little-endian limbs, no high zeros.  *)

LimbBits == 15
Base == 32768
Prec == 53

\* the element of a one-element set: binds a computed value once
Val(S) == CHOOSE v \in S : TRUE

RECURSIVE BitLenLimb(_)
BitLenLimb(x) == IF x = 0 THEN 0 ELSE 1 + BitLenLimb(x \div 2)

RECURSIVE TrailingZerosLimb(_)
TrailingZerosLimb(x) == IF x % 2 = 1 THEN 0 ELSE 1 + TrailingZerosLimb(x \div 2)

RECURSIVE BStrip(_)
BStrip(x) ==
    Val({ IF Len(a) = 0 THEN a
          ELSE IF a[Len(a)] = 0 THEN BStrip(SubSeq(a, 1, Len(a) - 1)) ELSE a
        : a \in {x} })

BLimb(a, i) == IF i >= 1 /\ i <= Len(a) THEN a[i] ELSE 0

RECURSIVE BFromNat(_)
BFromNat(n) == IF n = 0 THEN << >> ELSE <<n % Base>> \o BFromNat(n \div Base)

BMaxLen(a, b) == IF Len(a) >= Len(b) THEN Len(a) ELSE Len(b)

RECURSIVE BAddR(_, _, _, _, _)
BAddR(a, b, i, c, acc) ==
    IF i > BMaxLen(a, b)
    THEN IF c = 0 THEN acc ELSE Append(acc, c)
    ELSE Val({ BAddR(a, b, i + 1, s \div Base, Append(acc, s % Base))
             : s \in {BLimb(a, i) + BLimb(b, i) + c} })

BAdd(x, y) == Val({ BAddR(a, b, 1, 0, << >>) : a \in {x}, b \in {y} })

\* a - b for a >= b
RECURSIVE BSubR(_, _, _, _, _)
BSubR(a, b, i, c, acc) ==
    IF i > Len(a) THEN BStrip(acc)
    ELSE Val({ IF s < 0 THEN BSubR(a, b, i + 1, 1, Append(acc, s + Base))
                        ELSE BSubR(a, b, i + 1, 0, Append(acc, s))
             : s \in {a[i] - BLimb(b, i) - c} })

BSub(x, y) == Val({ BSubR(a, b, 1, 0, << >>) : a \in {x}, b \in {y} })

RECURSIVE BCmpR(_, _, _)
BCmpR(a, b, i) ==
    IF i = 0 THEN 0
    ELSE IF a[i] < b[i] THEN -1
    ELSE IF a[i] > b[i] THEN 1
    ELSE BCmpR(a, b, i - 1)

\* -1, 0, 1 as a < b, a = b, a > b
BCmp(x, y) ==
    Val({ IF Len(a) < Len(b) THEN -1
          ELSE IF Len(a) > Len(b) THEN 1
          ELSE BCmpR(a, b, Len(a))
        : a \in {x}, b \in {y} })

RECURSIVE BMulLimbR(_, _, _, _, _)
BMulLimbR(a, k, i, c, acc) ==
    IF i > Len(a)
    THEN IF c = 0 THEN acc ELSE Append(acc, c)
    ELSE Val({ BMulLimbR(a, k, i + 1, s \div Base, Append(acc, s % Base))
             : s \in {a[i] * k + c} })

BMulLimb(x, k) ==
    IF k = 0 THEN << >> ELSE Val({ BMulLimbR(a, k, 1, 0, << >>) : a \in {x} })

BShlLimbs(x, n) ==
    Val({ IF Len(a) = 0 THEN a ELSE [i \in 1..n |-> 0] \o a : a \in {x} })

RECURSIVE BMulR(_, _, _, _)
BMulR(a, b, i, acc) ==
    IF i > Len(b) THEN acc
    ELSE Val({ BMulR(a, b, i + 1, acc2)
             : acc2 \in {BAdd(acc, BShlLimbs(BMulLimb(a, b[i]), i - 1))} })

BMul(x, y) == Val({ BMulR(a, b, 1, << >>) : a \in {x}, b \in {y} })

BShl(a, k) == BShlLimbs(BMulLimb(a, 2 ^ (k % LimbBits)), k \div LimbBits)

\* floor(a / 2^k)
BShr(x, k) ==
    Val({ IF Len(a) <= n THEN << >>
          ELSE BStrip([i \in 1..(Len(a) - n) |->
                   (a[i + n] \div p) + (BLimb(a, i + n + 1) % p) * q])
        : a \in {x}, n \in {k \div LimbBits},
          p \in {2 ^ (k % LimbBits)}, q \in {2 ^ (LimbBits - (k % LimbBits))} })

BBitLen(a) ==
    IF Len(a) = 0 THEN 0
    ELSE LimbBits * (Len(a) - 1) + BitLenLimb(a[Len(a)])

\* bit i of a, the least significant bit being bit 0
BBit(a, i) == (BLimb(a, i \div LimbBits + 1) \div (2 ^ (i % LimbBits))) % 2

\* bits 0 .. k-1 of a are all zero
BLowZero(a, k) ==
    /\ \A i \in 1..(k \div LimbBits) : BLimb(a, i) = 0
    /\ BLimb(a, k \div LimbBits + 1) % (2 ^ (k % LimbBits)) = 0

RECURSIVE BFirstNonZero(_, _)
BFirstNonZero(a, i) == IF a[i] # 0 THEN i ELSE BFirstNonZero(a, i + 1)

\* number of trailing zero bits of a # 0
BTrailingZeros(a) ==
    Val({ LimbBits * (j - 1) + TrailingZerosLimb(a[j]) : j \in {BFirstNonZero(a, 1)} })

----------------------------------------------------------------------------
(* double: [neg, m, e] is (-1)^neg * m * 2^e, m odd, or the zero below.    *)

Zero == [neg |-> FALSE, m |-> << >>, e |-> 0]

IsZero(a) == Len(a.m) = 0

Canon(neg, m0, e) ==
    Val({ IF Len(m) = 0 THEN Zero
          ELSE Val({ [neg |-> neg, m |-> BShr(m, tz), e |-> e + tz]
                   : tz \in {BTrailingZeros(m)} })
        : m \in {m0} })

\* round m * 2^e (plus a nonzero amount below the last bit when sticky)
\* to Prec bits, to nearest, ties to even
Rnd(neg, m0, e, sticky) ==
    Val({ Val({ IF L <= Prec THEN Canon(neg, m, e)
                ELSE Val({ LET half == BBit(m, L - Prec - 1) = 1
                               rest == sticky \/ ~BLowZero(m, L - Prec - 1)
                               up   == half /\ (rest \/ BBit(q, 0) = 1)
                           IN  Canon(neg, IF up THEN BAdd(q, <<1>>) ELSE q,
                                     e + L - Prec)
                         : q \in {BShr(m, L - Prec)} })
              : L \in {BBitLen(m)} })
        : m \in {m0} })

FromInt(n) == Canon(n < 0, BFromNat(IF n < 0 THEN -n ELSE n), 0)

FNeg(a) == IF IsZero(a) THEN a ELSE [a EXCEPT !.neg = ~a.neg]

\* beyond this exponent gap the smaller operand is below a quarter ulp of
\* the larger and the rounded sum is the larger operand
FarApart == 120

\* the exact sum, difference and product of two doubles
XAdd(x, y) ==
    Val({ IF IsZero(a) THEN b
          ELSE IF IsZero(b) THEN a
          ELSE Val({ Val({ Val({ IF a.neg = b.neg THEN Canon(a.neg, BAdd(A, B), e)
                                 ELSE IF c = 0 THEN Zero
                                 ELSE IF c > 0 THEN Canon(a.neg, BSub(A, B), e)
                                 ELSE Canon(b.neg, BSub(B, A), e)
                               : c \in {BCmp(A, B)} })
                         : A \in {BShl(a.m, a.e - e)}, B \in {BShl(b.m, b.e - e)} })
                   : e \in {IF a.e <= b.e THEN a.e ELSE b.e} })
        : a \in {x}, b \in {y} })

XSub(x, y) == XAdd(x, FNeg(y))

XMul(x, y) ==
    Val({ IF IsZero(a) \/ IsZero(b) THEN Zero
          ELSE Canon(a.neg # b.neg, BMul(a.m, b.m), a.e + b.e)
        : a \in {x}, b \in {y} })

\* an exact value rounded to a double
Round(x) == Val({ Rnd(a.neg, a.m, a.e, FALSE) : a \in {x} })

FAdd(x, y) ==
    Val({ IF IsZero(a) THEN b
          ELSE IF IsZero(b) THEN a
          ELSE IF a.e - b.e > FarApart THEN a
          ELSE IF b.e - a.e > FarApart THEN b
          ELSE Round(XAdd(a, b))
        : a \in {x}, b \in {y} })

FSub(a, b) == FAdd(a, FNeg(b))

FMul(x, y) == Round(XMul(x, y))

\* -1, 0, 1 as |a| < |b|, |a| = |b|, |a| > |b|, for a, b nonzero
MagCmp(a, b) ==
    Val({ IF ta < tb THEN -1
          ELSE IF ta > tb THEN 1
          ELSE BCmp(BShl(a.m, a.e - e), BShl(b.m, b.e - e))
        : ta \in {a.e + BBitLen(a.m)}, tb \in {b.e + BBitLen(b.m)},
          e \in {IF a.e <= b.e THEN a.e ELSE b.e} })

FCmp(x, y) ==
    Val({ IF IsZero(a) THEN (IF IsZero(b) THEN 0 ELSE IF b.neg THEN 1 ELSE -1)
          ELSE IF IsZero(b) THEN (IF a.neg THEN -1 ELSE 1)
          ELSE IF a.neg # b.neg THEN (IF a.neg THEN -1 ELSE 1)
          ELSE IF a.neg THEN -MagCmp(a, b) ELSE MagCmp(a, b)
        : a \in {x}, b \in {y} })

FLt(a, b) == FCmp(a, b) < 0
FLe(a, b) == FCmp(a, b) <= 0
FGt(a, b) == FCmp(a, b) > 0

\* largest q with q * d <= r, for r < Base * d and the top limb of d at
\* least Base / 2: the estimate from the leading limbs is at most 2 too big
RECURSIVE QCorrect(_, _, _)
QCorrect(r, d, q) ==
    IF BCmp(BMulLimb(d, q), r) > 0 THEN QCorrect(r, d, q - 1) ELSE q

QDigit(r, d) ==
    IF Len(r) < Len(d) THEN 0
    ELSE Val({ QCorrect(r, d, IF qhat > Base - 1 THEN Base - 1 ELSE qhat)
             : qhat \in {(BLimb(r, Len(d) + 1) * Base + BLimb(r, Len(d)))
                            \div d[Len(d)]} })

\* long division, one limb of num per step from limb i down to limb 1
RECURSIVE BDivR(_, _, _, _, _)
BDivR(num, d, i, r, q) ==
    IF i = 0 THEN [q |-> BStrip(q), r |-> r]
    ELSE Val({ Val({ Val({ BDivR(num, d, i - 1, r3, q3)
                         : r3 \in {BSub(r2, BMulLimb(d, g))}, q3 \in {<<g>> \o q} })
                   : g \in {QDigit(r2, d)} })
             : r2 \in {BStrip(<<num[i]>> \o r)} })

\* quotient and remainder of num / d for d # 0
BDivMod(num, d) ==
    Val({ Val({ Val({ [q |-> res.q, r |-> BShr(res.r, s)]
                    : res \in {BDivR(nn, dn, Len(nn), << >>, << >>)} })
              : nn \in {BShl(num, s)}, dn \in {BShl(d, s)} })
        : s \in {LimbBits - BitLenLimb(d[Len(d)])} })

\* quotient bits kept before rounding: two more than Prec, and a nonzero
\* remainder is the sticky bit
QuotBits == 55

\* a / b for b # 0
FDiv(x, y) ==
    Val({ IF IsZero(a) THEN Zero
          ELSE Val({ Val({ Val({ Rnd(a.neg # b.neg, res.q, a.e - b.e - k,
                                     Len(res.r) # 0)
                               : res \in {BDivMod(num, b.m)} })
                         : num \in {BShl(a.m, k)} })
                   : k \in {QuotBits + BBitLen(b.m) - BBitLen(a.m)} })
        : a \in {x}, b \in {y} })

\* Newton's iteration for the integer square root, from x >= sqrt(n)
RECURSIVE ISqrtR(_, _)
ISqrtR(n, x) ==
    Val({ Val({ IF BCmp(y, x) >= 0 THEN x ELSE ISqrtR(n, y)
              : y \in {BShr(t, 1)} })
        : t \in {BAdd(x, BDivMod(n, x).q)} })

\* std::sqrt of a >= 0
FSqrt(x) ==
    Val({ IF IsZero(a) THEN Zero
          ELSE Val({ Val({ Val({ Val({ Rnd(FALSE, q, (a.e - k) \div 2, BCmp(q2, N) # 0)
                                     : q2 \in {BMul(q, q)} })
                               : q \in {ISqrtR(N, x0)} })
                         : N \in {BShl(a.m, k)},
                           x0 \in {BShl(<<1>>, (2 * QuotBits + 2) \div 2)} })
                   : k \in { IF (a.e - (2 * QuotBits - BBitLen(a.m))) % 2 = 0
                             THEN 2 * QuotBits - BBitLen(a.m)
                             ELSE 2 * QuotBits - BBitLen(a.m) + 1 } })
        : a \in {x} })

\* std::max, std::min, std::abs as <algorithm> and <cmath> define them
Max(x, y) == Val({ IF FLt(a, b) THEN b ELSE a : a \in {x}, b \in {y} })
Min(x, y) == Val({ IF FLt(b, a) THEN b ELSE a : a \in {x}, b \in {y} })
Abs(a) == IF IsZero(a) THEN a ELSE [a EXCEPT !.neg = FALSE]

\* the literal n / d of the source text (n, d integers), correctly rounded
Lit(n, d) == FDiv(FromInt(n), FromInt(d))
----------------------------------------------------------------------------
(* Structs and the Triangle class.                                         *)

Point2D(x, y) == [x |-> x, y |-> y]

BarycentricCoord(p, v, a) == [performance |-> p, velocity |-> v, adaptability |-> a]

padding == 80

\* Triangle::Triangle(int canvasWidth, int canvasHeight)
Triangle(canvasWidth, canvasHeight) ==
    [top   |-> Point2D(FDiv(FromInt(canvasWidth), FromInt(2)), FromInt(padding)),
     left  |-> Point2D(FromInt(padding), FromInt(canvasHeight - padding)),
     right |-> Point2D(FromInt(canvasWidth - padding), FromInt(canvasHeight - padding))]

baryToCartesian(t, bc) ==
    Point2D(
        FAdd(FAdd(FMul(bc.performance, t.top.x), FMul(bc.velocity, t.left.x)),
             FMul(bc.adaptability, t.right.x)),
        FAdd(FAdd(FMul(bc.performance, t.top.y), FMul(bc.velocity, t.left.y)),
             FMul(bc.adaptability, t.right.y)))

signedArea(p1, p2, p3) ==
    FSub(FMul(FSub(p1.x, p3.x), FSub(p2.y, p3.y)),
         FMul(FSub(p2.x, p3.x), FSub(p1.y, p3.y)))

isInside(t, point) ==
    Val({ LET hasNeg == FLt(d1, Zero) \/ FLt(d2, Zero) \/ FLt(d3, Zero)
              hasPos == FGt(d1, Zero) \/ FGt(d2, Zero) \/ FGt(d3, Zero)
          IN  ~(hasNeg /\ hasPos)
        : d1 \in {signedArea(point, t.top, t.left)},
          d2 \in {signedArea(point, t.left, t.right)},
          d3 \in {signedArea(point, t.right, t.top)} })

Epsilon == Lit(1, 1000)

One == FromInt(1)

projectPointOntoSegment(p, a, b) ==
    Val({ Val({ IF FLt(lengthSq, Epsilon) THEN a
                ELSE Val({ Point2D(FAdd(a.x, FMul(t, dx)), FAdd(a.y, FMul(t, dy)))
                         : t \in { Max(Zero, Min(One,
                               FDiv(FAdd(FMul(FSub(p.x, a.x), dx),
                                         FMul(FSub(p.y, a.y), dy)), lengthSq))) } })
              : lengthSq \in {FAdd(FMul(dx, dx), FMul(dy, dy))} })
        : dx \in {FSub(b.x, a.x)}, dy \in {FSub(b.y, a.y)} })

distSq(a, b) ==
    Val({ FAdd(FMul(dx, dx), FMul(dy, dy))
        : dx \in {FSub(b.x, a.x)}, dy \in {FSub(b.y, a.y)} })

clampToTriangle(t, point) ==
    IF isInside(t, point) THEN point
    ELSE Val({ Val({ IF FLe(d1, d2) /\ FLe(d1, d3) THEN proj1
                     ELSE IF FLe(d2, d3) THEN proj2
                     ELSE proj3
                   : d1 \in {distSq(point, proj1)},
                     d2 \in {distSq(point, proj2)},
                     d3 \in {distSq(point, proj3)} })
             : proj1 \in {projectPointOntoSegment(point, t.top, t.left)},
               proj2 \in {projectPointOntoSegment(point, t.left, t.right)},
               proj3 \in {projectPointOntoSegment(point, t.right, t.top)} })

\* cartesianToBary with velocity and adaptability taken from each other's
\* sub-triangle
cartesianToBarySwapped(t, point) ==
    Val({ Val({ Val({ BarycentricCoord(Max(Zero, Min(One, perf)), Max(Zero, Min(One, vel)), Max(Zero, Min(One, adapt)))
                    : perf \in {FDiv(signedArea(clamped, t.left, t.right), totalArea)},
                      vel \in {FDiv(signedArea(clamped, t.top, t.left), totalArea)},
                      adapt \in {FDiv(signedArea(clamped, t.right, t.top), totalArea)} })
              : totalArea \in {IF FLt(Abs(area0), Epsilon) THEN One ELSE area0} })
        : clamped \in {clampToTriangle(t, point)}, area0 \in {signedArea(t.top, t.left, t.right)} })

\* cartesianToBary without the final clamp of each component to [0,1]
cartesianToBaryUnclamped(t, point) ==
    Val({ Val({ Val({ BarycentricCoord(perf, vel, adapt)
                    : perf \in {FDiv(signedArea(clamped, t.left, t.right), totalArea)},
                      vel \in {FDiv(signedArea(clamped, t.right, t.top), totalArea)},
                      adapt \in {FDiv(signedArea(clamped, t.top, t.left), totalArea)} })
              : totalArea \in {IF FLt(Abs(area0), Epsilon) THEN One ELSE area0} })
        : clamped \in {clampToTriangle(t, point)}, area0 \in {signedArea(t.top, t.left, t.right)} })

\* cartesianToBary on the point itself, not clamped to the triangle first
cartesianToBaryOfRawPoint(t, point) ==
    Val({ Val({ Val({ BarycentricCoord(Max(Zero, Min(One, perf)), Max(Zero, Min(One, vel)), Max(Zero, Min(One, adapt)))
                    : perf \in {FDiv(signedArea(clamped, t.left, t.right), totalArea)},
                      vel \in {FDiv(signedArea(clamped, t.right, t.top), totalArea)},
                      adapt \in {FDiv(signedArea(clamped, t.top, t.left), totalArea)} })
              : totalArea \in {IF FLt(Abs(area0), Epsilon) THEN One ELSE area0} })
        : clamped \in {point}, area0 \in {signedArea(t.top, t.left, t.right)} })

cartesianToBary(t, point) ==
    Val({ Val({ Val({ BarycentricCoord(Max(Zero, Min(One, perf)),
                                       Max(Zero, Min(One, vel)),
                                       Max(Zero, Min(One, adapt)))
                    : perf  \in {FDiv(signedArea(clamped, t.left, t.right), totalArea)},
                      vel   \in {FDiv(signedArea(clamped, t.right, t.top), totalArea)},
                      adapt \in {FDiv(signedArea(clamped, t.top, t.left), totalArea)} })
              : totalArea \in {IF FLt(Abs(area0), Epsilon) THEN One ELSE area0} })
        : clamped \in {clampToTriangle(t, point)},
          area0 \in {signedArea(t.top, t.left, t.right)} })

----------------------------------------------------------------------------
(* Global state and the exported functions.                                *)

VARIABLES
    heap,         \* the Triangle objects allocated by new and not yet deleted
    triangle,     \* static Triangle* triangle: an address of heap, or nullptr
    dotPosition,  \* static BarycentricCoord dotPosition
    isDragging,   \* static bool isDragging
    call,         \* the exported function called last, and its arguments
    geom          \* a direct use of the Triangle class: inputs and result

vars == <<heap, triangle, dotPosition, isDragging, call, geom>>

nullptr == 0
CANVAS_WIDTH == 700
CANVAS_HEIGHT == 550
GrabRadius == 15

\* bounds of the model
MaxAlloc == 2
NPts == 8
NGeomPts == 12
BaryN == 4
TolExp == 40

Addr == 1..MaxAlloc

Origin == Point2D(Zero, Zero)

Pt(x, y) == Point2D(FromInt(x), FromInt(y))

\* pointer positions the host page may pass, in canvas pixels
Candidates ==
    << Pt(350, 80),  Pt(350, 300), Pt(0, 0),     Pt(700, 600),
       Pt(350, 90),  Pt(340, 70),  Pt(100, 100), Pt(355, 345),
       Pt(350, 500), Pt(600, 100), Pt(215, 275), Pt(80, 470),
       Pt(620, 470), Pt(-300, -290) >>

MousePts == {Candidates[i] : i \in 1..NPts}

Called(op, pt) == [op |-> op, pt |-> pt]

InitialDot == BarycentricCoord(Lit(33, 100), Lit(33, 100), Lit(34, 100))

CanvasTriangle == Triangle(CANVAS_WIDTH, CANVAS_HEIGHT)

GeomIdle ==
    [kind |-> "none", t |-> CanvasTriangle, p |-> Origin, bc |-> InitialDot,
     op |-> "none", rp |-> Origin, rb |-> InitialDot]

Init ==
    /\ heap = [a \in {} |-> CanvasTriangle]
    /\ triangle = nullptr
    /\ dotPosition = InitialDot
    /\ isDragging = FALSE
    /\ call = Called("none", Origin)
    /\ geom = GeomIdle

\* new Triangle(...): the lowest free address
NewAddr == CHOOSE a \in Addr \ DOMAIN heap : \A b \in Addr \ DOMAIN heap : a <= b

\* init that also puts the marker back and ends the drag
initResetsMarker ==
    /\ Cardinality(DOMAIN heap) < MaxAlloc
    /\ heap' = [a \in DOMAIN heap \cup {NewAddr} |->
                   IF a = NewAddr THEN Triangle(CANVAS_WIDTH, CANVAS_HEIGHT)
                   ELSE heap[a]]
    /\ triangle' = NewAddr
    /\ dotPosition' = InitialDot
    /\ isDragging' = FALSE
    /\ call' = Called("init", Origin)
    /\ UNCHANGED geom

\* init that deletes the instance the pointer names before it allocates
initReleasesPrevious ==
    /\ Cardinality(DOMAIN heap) < MaxAlloc
    /\ \E kept \in {DOMAIN heap \ {triangle}} :
       \E new \in {CHOOSE a \in Addr \ kept : \A b \in Addr \ kept : a <= b} :
          /\ heap' = [a \in kept \cup {new} |->
                         IF a = new THEN Triangle(CANVAS_WIDTH, CANVAS_HEIGHT)
                         ELSE heap[a]]
          /\ triangle' = new
    /\ call' = Called("init", Origin)
    /\ UNCHANGED <<dotPosition, isDragging, geom>>

init ==
    /\ Cardinality(DOMAIN heap) < MaxAlloc
    /\ heap' = [a \in DOMAIN heap \cup {NewAddr} |->
                   IF a = NewAddr THEN Triangle(CANVAS_WIDTH, CANVAS_HEIGHT)
                   ELSE heap[a]]
    /\ triangle' = NewAddr
    /\ call' = Called("init", Origin)
    /\ UNCHANGED <<dotPosition, isDragging, geom>>

\* delete of a null pointer does nothing
cleanup ==
    /\ heap' = [a \in DOMAIN heap \ {triangle} |-> heap[a]]
    /\ triangle' = nullptr
    /\ call' = Called("cleanup", Origin)
    /\ UNCHANGED <<dotPosition, isDragging, geom>>

\* handleMouseDown that tries the click-to-place test before the grab test
handleMouseDownPlaceFirst(mouseX, mouseY) ==
    /\ call' = Called("handleMouseDown", Point2D(mouseX, mouseY))
    /\ UNCHANGED <<heap, triangle, geom>>
    /\ IF triangle = nullptr THEN UNCHANGED <<dotPosition, isDragging>>
       ELSE \E mousePos \in {Point2D(mouseX, mouseY)},
               dotPos \in {baryToCartesian(heap[triangle], dotPosition)} :
            \E dx \in {FSub(mousePos.x, dotPos.x)},
               dy \in {FSub(mousePos.y, dotPos.y)} :
            \E distance \in {FSqrt(FAdd(FMul(dx, dx), FMul(dy, dy)))} :
                IF isInside(heap[triangle], mousePos)
                THEN /\ dotPosition' = cartesianToBary(heap[triangle], mousePos)
                     /\ isDragging' = TRUE
                ELSE IF FLt(distance, FromInt(GrabRadius))
                THEN /\ isDragging' = TRUE
                     /\ UNCHANGED dotPosition
                ELSE UNCHANGED <<dotPosition, isDragging>>

handleMouseDown(mouseX, mouseY) ==
    /\ call' = Called("handleMouseDown", Point2D(mouseX, mouseY))
    /\ UNCHANGED <<heap, triangle, geom>>
    /\ IF triangle = nullptr THEN UNCHANGED <<dotPosition, isDragging>>
       ELSE \E mousePos \in {Point2D(mouseX, mouseY)},
               dotPos \in {baryToCartesian(heap[triangle], dotPosition)} :
            \E dx \in {FSub(mousePos.x, dotPos.x)},
               dy \in {FSub(mousePos.y, dotPos.y)} :
            \E distance \in {FSqrt(FAdd(FMul(dx, dx), FMul(dy, dy)))} :
                IF FLt(distance, FromInt(GrabRadius))
                THEN /\ isDragging' = TRUE
                     /\ UNCHANGED dotPosition
                ELSE IF isInside(heap[triangle], mousePos)
                THEN /\ dotPosition' = cartesianToBary(heap[triangle], mousePos)
                     /\ isDragging' = TRUE
                ELSE UNCHANGED <<dotPosition, isDragging>>

\* handleMouseMove that follows the pointer only inside the triangle
handleMouseMoveInsideOnly(mouseX, mouseY) ==
    /\ call' = Called("handleMouseMove", Point2D(mouseX, mouseY))
    /\ UNCHANGED <<heap, triangle, isDragging, geom>>
    /\ IF triangle = nullptr \/ ~isDragging THEN UNCHANGED dotPosition
       ELSE IF ~isInside(heap[triangle], Point2D(mouseX, mouseY))
       THEN UNCHANGED dotPosition
       ELSE dotPosition' = cartesianToBary(heap[triangle], Point2D(mouseX, mouseY))

\* what a read through the null pointer finds in zeroed memory
NullTriangle == [top |-> Origin, left |-> Origin, right |-> Origin]

\* handleMouseMove with the guard !triangle && !isDragging
handleMouseMoveAndForOr(mouseX, mouseY) ==
    /\ call' = Called("handleMouseMove", Point2D(mouseX, mouseY))
    /\ UNCHANGED <<heap, triangle, isDragging, geom>>
    /\ IF triangle = nullptr /\ ~isDragging THEN UNCHANGED dotPosition
       ELSE dotPosition' =
               cartesianToBary(IF triangle = nullptr THEN NullTriangle
                               ELSE heap[triangle],
                               Point2D(mouseX, mouseY))

handleMouseMove(mouseX, mouseY) ==
    /\ call' = Called("handleMouseMove", Point2D(mouseX, mouseY))
    /\ UNCHANGED <<heap, triangle, isDragging, geom>>
    /\ IF triangle = nullptr \/ ~isDragging THEN UNCHANGED dotPosition
       ELSE dotPosition' = cartesianToBary(heap[triangle], Point2D(mouseX, mouseY))

\* handleMouseUp behind the null check of the other handlers
handleMouseUpGuarded ==
    /\ IF triangle = nullptr THEN UNCHANGED isDragging ELSE isDragging' = FALSE
    /\ call' = Called("handleMouseUp", Origin)
    /\ UNCHANGED <<heap, triangle, dotPosition, geom>>

handleMouseUp ==
    /\ isDragging' = FALSE
    /\ call' = Called("handleMouseUp", Origin)
    /\ UNCHANGED <<heap, triangle, dotPosition, geom>>

\* the getters read the state and change nothing
getDotX == IF triangle = nullptr THEN Zero
           ELSE baryToCartesian(heap[triangle], dotPosition).x
getDotY == IF triangle = nullptr THEN Zero
           ELSE baryToCartesian(heap[triangle], dotPosition).y
getTriangleTopX == IF triangle # nullptr THEN heap[triangle].top.x ELSE Zero
getTriangleTopY == IF triangle # nullptr THEN heap[triangle].top.y ELSE Zero
getTriangleLeftX == IF triangle # nullptr THEN heap[triangle].left.x ELSE Zero
getTriangleLeftY == IF triangle # nullptr THEN heap[triangle].left.y ELSE Zero
getTriangleRightX == IF triangle # nullptr THEN heap[triangle].right.x ELSE Zero
getTriangleRightY == IF triangle # nullptr THEN heap[triangle].right.y ELSE Zero
getPerformance == dotPosition.performance
getVelocity == dotPosition.velocity
getAdaptability == dotPosition.adaptability

Next ==
    \/ init
    \/ cleanup
    \/ \E p \in MousePts : handleMouseDown(p.x, p.y)
    \/ \E p \in MousePts : handleMouseMove(p.x, p.y)
    \/ handleMouseUp

Spec == Init /\ [][Next]_vars

----------------------------------------------------------------------------
(* The Triangle class used directly, on chosen vertex sets and inputs.     *)

\* the canvas triangle, and canvases that make the triangle degenerate:
\* no height, no width, a single point
Triangles ==
    { CanvasTriangle, Triangle(CANVAS_WIDTH, 2 * padding),
      Triangle(2 * padding, CANVAS_HEIGHT), Triangle(2 * padding, 2 * padding) }

GeomPts == {Candidates[i] : i \in 1..NGeomPts}

\* weights i/N, j/N, k/N with i + j + k = N, and the initial marker
Barys ==
    { BarycentricCoord(FDiv(FromInt(ij[1]), FromInt(BaryN)),
                       FDiv(FromInt(ij[2]), FromInt(BaryN)),
                       FDiv(FromInt(BaryN - ij[1] - ij[2]), FromInt(BaryN)))
      : ij \in {q \in (0..BaryN) \X (0..BaryN) : q[1] + q[2] <= BaryN} }
    \cup {InitialDot}

InitGeom ==
    /\ heap = [a \in {} |-> CanvasTriangle]
    /\ triangle = nullptr
    /\ dotPosition = InitialDot
    /\ isDragging = FALSE
    /\ call = Called("none", Origin)
    /\ \/ \E t \in Triangles, p \in GeomPts :
            geom = [GeomIdle EXCEPT !.kind = "point", !.t = t, !.p = p]
       \/ \E bc \in Barys :
            geom = [GeomIdle EXCEPT !.kind = "bary", !.bc = bc]

ApplyClampToTriangle ==
    /\ geom.kind = "point" /\ geom.op = "none"
    /\ geom' = [geom EXCEPT !.op = "clampToTriangle",
                            !.rp = clampToTriangle(geom.t, geom.p)]
    /\ UNCHANGED <<heap, triangle, dotPosition, isDragging, call>>

ApplyCartesianToBary ==
    /\ geom.kind = "point" /\ geom.op = "none"
    /\ geom' = [geom EXCEPT !.op = "cartesianToBary",
                            !.rb = cartesianToBary(geom.t, geom.p)]
    /\ UNCHANGED <<heap, triangle, dotPosition, isDragging, call>>

ApplyRoundTrip ==
    /\ geom.kind = "bary" /\ geom.op = "none"
    /\ \E pos \in {baryToCartesian(geom.t, geom.bc)} :
          geom' = [geom EXCEPT !.op = "roundTrip", !.rp = pos,
                               !.rb = cartesianToBary(geom.t, pos)]
    /\ UNCHANGED <<heap, triangle, dotPosition, isDragging, call>>

NextGeom == ApplyClampToTriangle \/ ApplyCartesianToBary \/ ApplyRoundTrip

SpecGeom == InitGeom /\ [][NextGeom]_vars

----------------------------------------------------------------------------
(* Exact quantities the properties are stated with.                        *)

\* 2^-TolExp
Tol == [neg |-> FALSE, m |-> <<1>>, e |-> -TolExp]

Near(a, b) == FLe(Abs(XSub(a, b)), Tol)

NearBary(u, v) ==
    /\ Near(u.performance, v.performance)
    /\ Near(u.velocity, v.velocity)
    /\ Near(u.adaptability, v.adaptability)

InUnit(x) == FLe(Zero, x) /\ FLe(x, One)

UnitWeights(bc) ==
    InUnit(bc.performance) /\ InUnit(bc.velocity) /\ InUnit(bc.adaptability)

\* performance + velocity + adaptability, without rounding
WeightSum(bc) == XAdd(XAdd(bc.performance, bc.velocity), bc.adaptability)

\* the squared distance of two points, without rounding
ExactDistSq(a, b) ==
    Val({ XAdd(XMul(dx, dx), XMul(dy, dy))
        : dx \in {XSub(a.x, b.x)}, dy \in {XSub(a.y, b.y)} })

WithinGrabRadius(t, bc, p) ==
    FLt(ExactDistSq(p, baryToCartesian(t, bc)), FromInt(GrabRadius * GrabRadius))

\* p lies on the segment from a to b, exactly
OnSegment(p, a, b) ==
    Val({ /\ IsZero(XSub(XMul(abx, apy), XMul(aby, apx)))
          /\ Val({ FLe(Zero, d) /\ FLe(d, XAdd(XMul(abx, abx), XMul(aby, aby)))
                 : d \in {XAdd(XMul(abx, apx), XMul(aby, apy))} })
        : abx \in {XSub(b.x, a.x)}, aby \in {XSub(b.y, a.y)},
          apx \in {XSub(p.x, a.x)}, apy \in {XSub(p.y, a.y)} })

OnEdge(t, p) ==
    \/ OnSegment(p, t.top, t.left)
    \/ OnSegment(p, t.left, t.right)
    \/ OnSegment(p, t.right, t.top)

IsVertex(t, p) == p \in {t.top, t.left, t.right}

Degenerate(t) == IsZero(signedArea(t.top, t.left, t.right))

----------------------------------------------------------------------------
(* The claims.                                                             *)

\* C1: with the geometry initialised, handleMouseDown at a point within the
\* grab radius (15) of the marker starts a drag and leaves the weights, also
\* when the point is inside or outside the triangle; otherwise at a point
\* inside the triangle it sets the weights to cartesianToBary of the point
\* and starts a drag; otherwise it changes neither, and a handleMouseMove
\* that follows from Idle changes nothing.
C1_PointerDownOutcomes ==
    [][ /\ (call'.op = "handleMouseDown" /\ triangle # nullptr) =>
              IF WithinGrabRadius(heap[triangle], dotPosition, call'.pt)
              THEN isDragging' /\ dotPosition' = dotPosition
              ELSE IF isInside(heap[triangle], call'.pt)
              THEN /\ dotPosition' = cartesianToBary(heap[triangle], call'.pt)
                   /\ isDragging'
              ELSE dotPosition' = dotPosition /\ isDragging' = isDragging
        /\ (call.op = "handleMouseDown" /\ ~isDragging /\ call'.op = "handleMouseMove")
              => UNCHANGED <<dotPosition, isDragging>>
      ]_vars

\* a grab at a point outside the triangle
C1_Witness ==
    /\ call.op = "handleMouseDown"
    /\ triangle # nullptr
    /\ isDragging
    /\ ~isInside(heap[triangle], call.pt)
    /\ WithinGrabRadius(heap[triangle], dotPosition, call.pt)

\* C2: handleMouseMove changes nothing unless a drag is in progress and the
\* geometry exists; then it sets the weights to cartesianToBary of the
\* point, for points outside the triangle too, and the drag continues.
C2_PointerMove ==
    [][ call'.op = "handleMouseMove" =>
          /\ heap' = heap /\ triangle' = triangle /\ isDragging' = isDragging
          /\ IF isDragging /\ triangle # nullptr
             THEN dotPosition' = cartesianToBary(heap[triangle], call'.pt)
             ELSE dotPosition' = dotPosition
      ]_vars

\* a drag to a point outside the triangle
C2_Witness ==
    /\ call.op = "handleMouseMove"
    /\ triangle # nullptr
    /\ isDragging
    /\ ~isInside(heap[triangle], call.pt)
    /\ dotPosition = cartesianToBary(heap[triangle], call.pt)
    /\ dotPosition # InitialDot

\* C3: while no geometry instance exists, handleMouseDown and
\* handleMouseMove leave the weights and the drag flag, and getDotX, getDotY
\* and the six vertex getters return 0.
C3_NoGeometry ==
    /\ [](triangle = nullptr =>
            /\ getDotX = Zero /\ getDotY = Zero
            /\ getTriangleTopX = Zero /\ getTriangleTopY = Zero
            /\ getTriangleLeftX = Zero /\ getTriangleLeftY = Zero
            /\ getTriangleRightX = Zero /\ getTriangleRightY = Zero)
    /\ [][ (triangle = nullptr /\ call'.op \in {"handleMouseDown", "handleMouseMove"})
              => UNCHANGED <<dotPosition, isDragging, heap, triangle>> ]_vars

\* a move during a drag whose geometry was released
C3_Witness ==
    /\ triangle = nullptr
    /\ isDragging
    /\ call.op = "handleMouseMove"
    /\ dotPosition # InitialDot
    /\ getDotX = Zero

\* C4: handleMouseUp ends the drag from any state and leaves the weights
\* and the geometry; a drag starts only in handleMouseDown, and while no
\* drag is in progress only handleMouseDown changes the weights.
C4_PointerUp ==
    [][ /\ call'.op = "handleMouseUp" =>
              /\ ~isDragging'
              /\ UNCHANGED <<dotPosition, heap, triangle>>
        /\ (~isDragging /\ isDragging') => call'.op = "handleMouseDown"
        /\ (~isDragging /\ dotPosition' # dotPosition) => call'.op = "handleMouseDown"
      ]_vars

\* a move, after a drag has ended, that the marker does not follow
C4_Witness ==
    /\ call.op = "handleMouseMove"
    /\ triangle # nullptr
    /\ ~isDragging
    /\ dotPosition # InitialDot
    /\ dotPosition # cartesianToBary(heap[triangle], call.pt)

\* C5: for the canvas triangle and weights in [0,1] that sum to 1,
\* cartesianToBary(baryToCartesian(bc)) is bc within 2^-TolExp in each
\* component.
C5_RoundTrip ==
    geom.op = "roundTrip" => NearBary(geom.rb, geom.bc)

\* a round trip of weights that are all strictly between 0 and 1
C5_Witness ==
    /\ geom.op = "roundTrip"
    /\ geom.bc # InitialDot
    /\ FLt(Zero, geom.bc.performance)
    /\ FLt(Zero, geom.bc.velocity)
    /\ FLt(Zero, geom.bc.adaptability)
    /\ NearBary(geom.rb, geom.bc)

\* C6: clampToTriangle returns a point inside the triangle unchanged, and
\* for a point outside it returns a point that lies on one of the three
\* edges and is inside by isInside.
C6_ClampInTriangle ==
    (geom.op = "clampToTriangle" /\ geom.t = CanvasTriangle) =>
        /\ isInside(geom.t, geom.p) => geom.rp = geom.p
        /\ ~isInside(geom.t, geom.p) => OnEdge(geom.t, geom.rp)
        /\ isInside(geom.t, geom.rp)

\* C7: init and cleanup leave the weights and the drag flag; after an init
\* during a drag the next handleMouseMove moves the marker.
C7_InitCleanupFrame ==
    [][ /\ call'.op \in {"init", "cleanup"} => UNCHANGED <<dotPosition, isDragging>>
        /\ (call.op = "init" /\ isDragging /\ call'.op = "handleMouseMove") =>
              dotPosition' = cartesianToBary(heap[triangle], call'.pt)
      ]_vars

\* a drag that has survived cleanup and a first allocation after it
C7_Witness ==
    /\ call.op = "init"
    /\ isDragging
    /\ Cardinality(DOMAIN heap) = 1
    /\ triangle \in DOMAIN heap

C10_AtMostOneInstance == Cardinality(DOMAIN heap) <= 1

\* C10 amended: the pointer is null or names an allocated instance; init
\* allocates one more instance and releases none, cleanup releases the
\* instance the pointer names and no other.
C10_InitLeaksPrevious ==
    /\ [](triangle = nullptr \/ triangle \in DOMAIN heap)
    /\ [][ /\ call'.op = "init" =>
                 /\ DOMAIN heap' = DOMAIN heap \cup {triangle'}
                 /\ triangle' \notin DOMAIN heap
           /\ call'.op = "cleanup" =>
                 /\ DOMAIN heap' = DOMAIN heap \ {triangle}
                 /\ triangle' = nullptr
         ]_vars

\* a second init has left the first instance allocated
C10_Witness ==
    /\ Cardinality(DOMAIN heap) = 2
    /\ triangle \in DOMAIN heap
    /\ call.op = "init"

====
